---- MODULE Spec2Model ----
(***************************************************************************)
(* Model of the rig validator in plugin/USDRigValidator/src/               *)
(* ValidateRigCmd.cpp: the matrix comparator, the quick and detailed       *)
(* skeleton and skin-binding validators, the USD skeleton extraction and   *)
(* the common-root search and the weight loop of the Maya skin extraction  *)
(* and the Maya joint hierarchy extraction.                                *)
(*                                                                         *)
(* Floating-point numbers are modelled as fixed-point values in units of   *)
(* 1e-7 (10 is 1e-6), plus the IEEE not-a-number value NaN.  Arrays are    *)
(* 1-based sequences; the code's 0-based index i reads position i + 1.     *)
(***************************************************************************)
EXTENDS Integers, Sequences, FiniteSets, TLC

VARIABLES
    usdMat, mayaMat, tolerance, matchOut,      \* matricesMatch: arguments and result
    usdSkel, mayaSkel, skelPc, quickOut, detailOut,  \* skeleton validators
    usdSkin, mayaSkin, skinPc, skinQuick, skinIssues, \* skin-binding validators
    stage, stageOpens, usdPc, primIdx, skeletons, usdParsed, \* parseAllUSDSkels
    influencePaths, skelPath, rootPc,          \* parseMayaSkin: common root
    scene, rootNode, fault, mayaPc, jointPaths, jointNameToIndex,
    extractIdx, mayaSkelData,                  \* parseMayaSkel
    vertexWeights, weightPc, vertexIdx, influenceIdx, arrayIndex,
    jointIndices, jointWeights, wroteOutside   \* parseMayaSkin: weight loop

matVars == <<usdMat, mayaMat, tolerance, matchOut>>
skelVars == <<usdSkel, mayaSkel, skelPc, quickOut, detailOut>>
skinVars == <<usdSkin, mayaSkin, skinPc, skinQuick, skinIssues>>
usdVars == <<stage, stageOpens, usdPc, primIdx, skeletons, usdParsed>>
rootVars == <<influencePaths, skelPath, rootPc>>
jointVars == <<scene, rootNode, fault, mayaPc, jointPaths, jointNameToIndex,
               extractIdx, mayaSkelData>>
weightVars == <<vertexWeights, weightPc, vertexIdx, influenceIdx, arrayIndex,
                jointIndices, jointWeights, wroteOutside>>
vars == <<matVars, skelVars, skinVars, usdVars, rootVars, jointVars, weightVars>>

----------------------------------------------------------------------------
(* double / float values *)

\* the IEEE not-a-number value, a value outside the range of the finite ones
NaN == -999999999

\* a finite value, in units of 1e-7
D(x) == x

\* a - b: NaN when either operand is NaN
Sub(a, b) == IF a = NaN \/ b = NaN THEN NaN ELSE a - b

\* std::abs
Abs(a) == IF a = NaN THEN NaN ELSE IF a < 0 THEN 0 - a ELSE a

\* a > b: false when either operand is NaN
Gt(a, b) == a # NaN /\ b # NaN /\ a > b

\* a <= b: false when either operand is NaN
Le(a, b) == a # NaN /\ b # NaN /\ a <= b

----------------------------------------------------------------------------
(* 4x4 matrices: a tuple of 4 rows of 4 entries *)

\* the default of matricesMatch's tolerance parameter, 1e-6
DefaultTolerance == 10

ZeroMat == [r \in 1..4 |-> [c \in 1..4 |-> D(0)]]

\* m with entry (row, col), 0-based, set to x
WithEntry(m, row, col, x) == [m EXCEPT ![row + 1][col + 1] = x]

RECURSIVE MatchLoop(_, _, _, _)
\* the row/col loops from entry k = 4 * row + col on
MatchLoop(usdM, mayaM, tol, k) ==
    IF k = 16 THEN TRUE
    ELSE LET row == k \div 4
             col == k % 4
             diff == Abs(Sub(usdM[row + 1][col + 1], mayaM[row + 1][col + 1]))
         IN IF Gt(diff, tol) THEN FALSE
            ELSE MatchLoop(usdM, mayaM, tol, k + 1)

MatricesMatch(usdM, mayaM, tol) == MatchLoop(usdM, mayaM, tol, 0)

----------------------------------------------------------------------------
(* matricesMatch on its own: the arguments are drawn by Init *)

\* entry values: 0, exactly the default tolerance, just above it, NaN
EntryValues == {D(0), D(DefaultTolerance), D(DefaultTolerance + 1), NaN}

\* the zero matrix with at most one entry replaced
OneEntryMats ==
    {WithEntry(ZeroMat, row, col, x) : row \in 0..3, col \in 0..3, x \in EntryValues}

Tolerances == {D(0), D(DefaultTolerance)}

NoMatch == [called |-> FALSE, ret |-> FALSE]

IdleMat ==
    /\ usdMat = ZeroMat
    /\ mayaMat = ZeroMat
    /\ tolerance = D(DefaultTolerance)
    /\ matchOut = NoMatch

InitMat ==
    /\ usdMat \in OneEntryMats
    /\ mayaMat \in OneEntryMats
    /\ tolerance \in Tolerances
    /\ matchOut = NoMatch

CallMatricesMatch ==
    /\ ~matchOut.called
    /\ matchOut' = [called |-> TRUE, ret |-> MatricesMatch(usdMat, mayaMat, tolerance)]
    /\ UNCHANGED <<usdMat, mayaMat, tolerance>>

----------------------------------------------------------------------------
(* ValidationIssue: type, index (0-based, NoIndex when not localized) and *)
(* the arguments formatted into the description, by kind of value         *)

\* the index of an issue constructed without one
NoIndex == -1

Issue(type, index, ints, strs, reals) ==
    [type |-> type, index |-> index, ints |-> ints, strs |-> strs, reals |-> reals]

----------------------------------------------------------------------------
(* skeleton data: USDSkeletonData / MayaSkeletonData *)

NameField == "jointNames"
ParentField == "jointParentIndices"
BindField == "bindTransforms"
RestField == "restTransforms"

SkelFields == <<NameField, ParentField, BindField, RestField>>

IssueType(f) ==
    CASE f = NameField -> "JOINT_NAME_MISMATCH"
      [] f = ParentField -> "PARENT_INDEX_MISMATCH"
      [] f = BindField -> "BIND_TRANSFORM_MISMATCH"
      [] f = RestField -> "REST_TRANSFORM_MISMATCH"

\* the comparison the loops make on one element of array f
Mismatch(f, usdV, mayaV) ==
    IF f \in {NameField, ParentField} THEN usdV # mayaV
    ELSE ~MatricesMatch(usdV, mayaV, D(DefaultTolerance))

\* a value of array f's element type that equals no value of the model
Junk(f) ==
    CASE f = NameField -> "?"
      [] f = ParentField -> 7
      [] OTHER -> WithEntry(ZeroMat, 3, 3, D(1))

\* what a read past the end of a Maya array yields when it does not fault:
\* bytes that compare equal to the USD element usdV, or some other value
Garbage(f, ub, usdV) == IF ub = "equal" THEN usdV ELSE Junk(f)

\* the outcomes of reading out of bounds: a fault, or some value of the type
UBOutcomes == {"crash", "equal", "junk"}

NoQuick == [called |-> FALSE, crashed |-> FALSE, oob |-> FALSE, ret |-> FALSE]
NoDetail == [called |-> FALSE, crashed |-> FALSE, oob |-> FALSE, issues |-> <<>>]

----------------------------------------------------------------------------
(* quickValidateSkeleton *)

RECURSIVE QuickLoop(_, _, _, _, _)
\* one for loop of quickValidateSkeleton over usdSkel[f], from index i on:
\* fail is the early "return false"
QuickLoop(f, u, m, ub, i) ==
    IF i >= Len(u[f]) THEN [crashed |-> FALSE, oob |-> FALSE, fail |-> FALSE]
    ELSE IF i >= Len(m[f])
         THEN \* mayaSkel[f][i] is read past the end of the array
              IF ub = "crash" THEN [crashed |-> TRUE, oob |-> TRUE, fail |-> FALSE]
              ELSE IF Mismatch(f, u[f][i + 1], Garbage(f, ub, u[f][i + 1]))
                   THEN [crashed |-> FALSE, oob |-> TRUE, fail |-> TRUE]
                   ELSE [QuickLoop(f, u, m, ub, i + 1) EXCEPT !.oob = TRUE]
         ELSE IF Mismatch(f, u[f][i + 1], m[f][i + 1])
              THEN [crashed |-> FALSE, oob |-> FALSE, fail |-> TRUE]
              ELSE QuickLoop(f, u, m, ub, i + 1)

RECURSIVE QuickLoops(_, _, _, _)
\* the four loops in order, from the k-th on; a fault or a return false ends them
QuickLoops(u, m, ub, k) ==
    IF k > Len(SkelFields) THEN [crashed |-> FALSE, oob |-> FALSE, fail |-> FALSE]
    ELSE LET r == QuickLoop(SkelFields[k], u, m, ub, 0)
         IN IF r.crashed \/ r.fail THEN r
            ELSE LET s == QuickLoops(u, m, ub, k + 1)
                 IN [s EXCEPT !.oob = r.oob \/ s.oob]

QuickValidateSkeleton(u, m, ub) ==
    IF Len(u.jointNames) # Len(m.jointNames)
       \/ Len(u.jointParentIndices) # Len(m.jointParentIndices)
       \/ Len(u.bindTransforms) # Len(m.bindTransforms)
    THEN [called |-> TRUE, crashed |-> FALSE, oob |-> FALSE, ret |-> FALSE]
    ELSE LET r == QuickLoops(u, m, ub, 1)
         IN [called |-> TRUE, crashed |-> r.crashed, oob |-> r.oob,
             ret |-> ~r.crashed /\ ~r.fail]

----------------------------------------------------------------------------
(* detailedValidateSkeleton *)

\* the issue emplaced for a mismatch of array f at index i; mayaName is
\* mayaSkel.jointNames[i] as read for the description
SkelIssue(f, i, usdV, mayaV, mayaName) ==
    CASE f = NameField -> Issue(IssueType(f), i, <<i>>, <<usdV, mayaV>>, <<>>)
      [] f = ParentField -> Issue(IssueType(f), i, <<i, usdV, mayaV>>, <<>>, <<>>)
      [] OTHER -> Issue(IssueType(f), i, <<i>>, <<mayaName>>, <<>>)

RECURSIVE DetailLoopFirst(_, _, _, _, _)
\* mutant: the loop returns at its first mismatch, as the quick check does
DetailLoopFirst(f, u, m, ub, i) ==
    IF i >= Len(u[f]) THEN [crashed |-> FALSE, oob |-> FALSE, issues |-> <<>>]
    ELSE IF i < Len(m[f]) /\ Mismatch(f, u[f][i + 1], m[f][i + 1])
         THEN [crashed |-> FALSE, oob |-> FALSE,
               issues |-> <<SkelIssue(f, i, u[f][i + 1], m[f][i + 1], m.jointNames[i + 1])>>]
         ELSE DetailLoopFirst(f, u, m, ub, i + 1)

RECURSIVE DetailLoop(_, _, _, _, _)
\* one for loop of detailedValidateSkeleton over usdSkel[f], from index i on
DetailLoop(f, u, m, ub, i) ==
    IF i >= Len(u[f]) THEN [crashed |-> FALSE, oob |-> FALSE, issues |-> <<>>]
    ELSE LET inb == i < Len(m[f])
             mayaV == IF inb THEN m[f][i + 1] ELSE Garbage(f, ub, u[f][i + 1])
             mis == Mismatch(f, u[f][i + 1], mayaV)
             \* the transform loops format mayaSkel.jointNames[i] into the description
             readsName == mis /\ f \in {BindField, RestField}
             nameInb == i < Len(m.jointNames)
             mayaName == IF nameInb THEN m.jointNames[i + 1] ELSE Junk(NameField)
             past == ~inb \/ (readsName /\ ~nameInb)
         IN IF past /\ ub = "crash"
            THEN [crashed |-> TRUE, oob |-> TRUE, issues |-> <<>>]
            ELSE LET r == DetailLoop(f, u, m, ub, i + 1)
                     here == IF mis THEN <<SkelIssue(f, i, u[f][i + 1], mayaV, mayaName)>>
                             ELSE <<>>
                 IN [crashed |-> r.crashed, oob |-> past \/ r.oob,
                     issues |-> IF r.crashed THEN <<>> ELSE here \o r.issues]

RECURSIVE DetailLoops(_, _, _, _)
\* the four loops in order, from the k-th on; only a fault ends them
DetailLoops(u, m, ub, k) ==
    IF k > Len(SkelFields) THEN [crashed |-> FALSE, oob |-> FALSE, issues |-> <<>>]
    ELSE LET r == DetailLoop(SkelFields[k], u, m, ub, 0)
         IN IF r.crashed THEN r
            ELSE LET s == DetailLoops(u, m, ub, k + 1)
                 IN [crashed |-> s.crashed, oob |-> r.oob \/ s.oob,
                     issues |-> IF s.crashed THEN <<>> ELSE r.issues \o s.issues]

\* mutant: the count issue is recorded but the per-joint loops still run
DetailedValidateSkeletonNoReturn(u, m, ub) ==
    LET r == DetailLoops(u, m, ub, 1)
        count == IF Len(u.jointNames) # Len(m.jointNames)
                 THEN <<Issue("JOINT_COUNT_MISMATCH", NoIndex,
                              <<Len(u.jointNames), Len(m.jointNames)>>, <<>>, <<>>)>>
                 ELSE <<>>
    IN [called |-> TRUE, crashed |-> r.crashed, oob |-> r.oob,
        issues |-> IF r.crashed THEN <<>> ELSE count \o r.issues]

DetailedValidateSkeleton(u, m, ub) ==
    IF Len(u.jointNames) # Len(m.jointNames)
    THEN [called |-> TRUE, crashed |-> FALSE, oob |-> FALSE,
          issues |-> <<Issue("JOINT_COUNT_MISMATCH", NoIndex,
                             <<Len(u.jointNames), Len(m.jointNames)>>, <<>>, <<>>)>>]
    ELSE LET r == DetailLoops(u, m, ub, 1)
         IN [called |-> TRUE, crashed |-> r.crashed, oob |-> r.oob, issues |-> r.issues]

----------------------------------------------------------------------------
(* skeleton pairs handed to the validators *)

\* the largest joint count of a generated skeleton
MaxJoints == 2

\* how many places a generated pair differs from a pair of equal skeletons
MaxEdits == 2

CanonNames == <<"root", "arm", "hand", "finger", "thumb", "tip">>

\* the i-th (1-based) element of array f of the reference skeleton: a chain
\* root <- arm <- hand ... with a different transform for every joint
CanonValue(f, i) ==
    CASE f = NameField -> CanonNames[i]
      [] f = ParentField -> i - 2
      [] f = BindField -> WithEntry(ZeroMat, 0, 3, D(1000 * i))
      [] f = RestField -> WithEntry(ZeroMat, 1, 3, D(1000 * i))

\* another value for that element: alt 1 differs, for a transform, by exactly
\* the tolerance in one entry (still a match), alt 2 by more
AltValue(f, i, alt) ==
    CASE f = NameField -> "forearm"
      [] f = ParentField -> i - 1
      [] OTHER -> WithEntry(CanonValue(f, i), 2, 2, D(DefaultTolerance + alt - 1))

CanonSkel(n) ==
    [f \in {NameField, ParentField, BindField, RestField} |->
        [i \in 1..n |-> CanonValue(f, i)]]

DropLast(seq) == IF Len(seq) = 0 THEN seq ELSE SubSeq(seq, 1, Len(seq) - 1)

Edits ==
    [op : {"set"}, side : {"maya"}, f : {NameField, ParentField},
     pos : 1..MaxJoints, alt : {2}]
    \cup [op : {"set"}, side : {"maya"}, f : {BindField, RestField},
          pos : 1..MaxJoints, alt : {1, 2}]
    \cup [op : {"shrink", "grow"}, side : {"usd", "maya"},
          f : {NameField, ParentField, BindField, RestField}, pos : {0}, alt : {0}]
    \cup [op : {"dropJoint"}, side : {"usd", "maya"}, f : {NameField}, pos : {0}, alt : {0}]
    \cup [op : {"none"}, side : {"usd"}, f : {NameField}, pos : {0}, alt : {0}]

EditSkel(sk, e) ==
    CASE e.op = "set" ->
            IF e.pos <= Len(sk[e.f])
            THEN [sk EXCEPT ![e.f][e.pos] = AltValue(e.f, e.pos, e.alt)]
            ELSE sk
      [] e.op = "shrink" -> [sk EXCEPT ![e.f] = DropLast(@)]
      [] e.op = "grow" -> [sk EXCEPT ![e.f] = Append(@, CanonValue(e.f, Len(@) + 1))]
      [] e.op = "dropJoint" -> [f \in DOMAIN sk |-> DropLast(sk[f])]
      [] OTHER -> sk

RECURSIVE EditPair(_, _, _)
\* the pair after edits k.. of es
EditPair(pair, es, k) ==
    IF k > Len(es) THEN pair
    ELSE LET e == es[k]
         IN EditPair([pair EXCEPT ![e.side] = EditSkel(@, e)], es, k + 1)

\* the pair made from two reference skeletons of n joints by the edits es
SkelPair(n, es) == EditPair([usd |-> CanonSkel(n), maya |-> CanonSkel(n)], es, 1)

\* the data-model invariant: one entry per joint in each of the four arrays
WellFormed(sk) ==
    /\ Len(sk.jointParentIndices) = Len(sk.jointNames)
    /\ Len(sk.bindTransforms) = Len(sk.jointNames)
    /\ Len(sk.restTransforms) = Len(sk.jointNames)

IdleSkel ==
    /\ usdSkel = CanonSkel(0)
    /\ mayaSkel = CanonSkel(0)
    /\ skelPc = "idle"
    /\ quickOut = NoQuick
    /\ detailOut = NoDetail

InitSkel ==
    /\ \E n \in 0..MaxJoints, es \in [1..MaxEdits -> Edits] :
          /\ usdSkel = SkelPair(n, es).usd
          /\ mayaSkel = SkelPair(n, es).maya
    /\ skelPc = "quick"
    /\ quickOut = NoQuick
    /\ detailOut = NoDetail

CallQuickValidateSkeleton ==
    /\ skelPc = "quick"
    /\ \E ub \in UBOutcomes : quickOut' = QuickValidateSkeleton(usdSkel, mayaSkel, ub)
    /\ skelPc' = "detailed"
    /\ UNCHANGED <<usdSkel, mayaSkel, detailOut>>

CallDetailedValidateSkeleton ==
    /\ skelPc = "detailed"
    /\ \E ub \in UBOutcomes : detailOut' = DetailedValidateSkeleton(usdSkel, mayaSkel, ub)
    /\ skelPc' = "done"
    /\ UNCHANGED <<usdSkel, mayaSkel, quickOut>>

----------------------------------------------------------------------------
(* quickValidateSkinBinding *)

\* weightTolerance = 1e-5f of the quick check
QuickWeightTolerance == 100

\* weightTolerance = 1e-5f of the detailed check
DetailedWeightTolerance == 100

RECURSIVE QuickIndexLoop(_, _, _)
\* the joint-index loop from index i on: TRUE when it ends without return false
QuickIndexLoop(u, m, i) ==
    IF i >= Len(u.jointIndices) THEN TRUE
    ELSE IF u.jointIndices[i + 1] # m.jointIndices[i + 1] THEN FALSE
         ELSE QuickIndexLoop(u, m, i + 1)

RECURSIVE QuickWeightLoop(_, _, _)
\* the joint-weight loop from index i on: TRUE when it ends without return false
QuickWeightLoop(u, m, i) ==
    IF i >= Len(u.jointWeights) THEN TRUE
    ELSE LET diff == Abs(Sub(u.jointWeights[i + 1], m.jointWeights[i + 1]))
         IN IF Gt(diff, D(QuickWeightTolerance)) THEN FALSE
            ELSE QuickWeightLoop(u, m, i + 1)

QuickValidateSkinBinding(u, m) ==
    IF Len(u.jointIndices) # Len(m.jointIndices) THEN FALSE
    ELSE IF Len(u.jointWeights) # Len(m.jointWeights) THEN FALSE
    ELSE IF ~QuickIndexLoop(u, m, 0) THEN FALSE
    ELSE IF ~QuickWeightLoop(u, m, 0) THEN FALSE
    ELSE IF ~MatricesMatch(u.geomBindTransform, m.geomBindTransform, D(DefaultTolerance))
         THEN FALSE
    ELSE TRUE

----------------------------------------------------------------------------
(* detailedValidateSkinBinding *)

RECURSIVE IndexScan(_, _, _, _)
\* the joint-index loop from index i on, indicesMismatchCount being count:
\* the issues it emplaces and the final count
IndexScan(u, m, i, count) ==
    IF i >= Len(u.jointIndices) THEN [issues |-> <<>>, count |-> count]
    ELSE IF u.jointIndices[i + 1] # m.jointIndices[i + 1]
         THEN LET r == IndexScan(u, m, i + 1, count + 1)
                  here == IF count + 1 <= 5
                          THEN <<Issue("JOINT_INDEX_MISMATCH", i,
                                       <<i, u.jointIndices[i + 1], m.jointIndices[i + 1]>>,
                                       <<>>, <<>>)>>
                          ELSE <<>>
              IN [r EXCEPT !.issues = here \o @]
         ELSE IndexScan(u, m, i + 1, count)

RECURSIVE WeightScanNoCap(_, _, _, _)
\* mutant: every weight mismatch is reported, the first 5 cap is dropped
WeightScanNoCap(u, m, i, count) ==
    IF i >= Len(u.jointWeights) THEN [issues |-> <<>>, count |-> count]
    ELSE LET diff == Abs(Sub(u.jointWeights[i + 1], m.jointWeights[i + 1]))
         IN IF Gt(diff, D(DetailedWeightTolerance))
            THEN LET r == WeightScanNoCap(u, m, i + 1, count + 1)
                 IN [r EXCEPT !.issues =
                        <<Issue("WEIGHT_VALUE_MISMATCH", i, <<i>>, <<>>,
                                <<u.jointWeights[i + 1], m.jointWeights[i + 1], diff>>)>> \o @]
            ELSE WeightScanNoCap(u, m, i + 1, count)

RECURSIVE WeightScan(_, _, _, _)
\* the joint-weight loop from index i on, weightsMismatchCount being count
WeightScan(u, m, i, count) ==
    IF i >= Len(u.jointWeights) THEN [issues |-> <<>>, count |-> count]
    ELSE LET diff == Abs(Sub(u.jointWeights[i + 1], m.jointWeights[i + 1]))
         IN IF Gt(diff, D(DetailedWeightTolerance))
            THEN LET r == WeightScan(u, m, i + 1, count + 1)
                     here == IF count + 1 <= 5
                             THEN <<Issue("WEIGHT_VALUE_MISMATCH", i, <<i>>, <<>>,
                                          <<u.jointWeights[i + 1], m.jointWeights[i + 1],
                                            diff>>)>>
                             ELSE <<>>
                 IN [r EXCEPT !.issues = here \o @]
            ELSE WeightScan(u, m, i + 1, count)

\* the two count checks: the issue of the first that fails, which is returned
\* at once, or no issue
SkinCountChecks(u, m) ==
    IF Len(u.jointIndices) # Len(m.jointIndices)
    THEN <<Issue("WEIGHT_COUNT_MISMATCH", NoIndex,
                 <<Len(u.jointIndices), Len(m.jointIndices)>>, <<"Joint indices">>, <<>>)>>
    ELSE IF Len(u.jointWeights) # Len(m.jointWeights)
    THEN <<Issue("WEIGHT_COUNT_MISMATCH", NoIndex,
                 <<Len(u.jointWeights), Len(m.jointWeights)>>, <<"Joint weights">>, <<>>)>>
    ELSE <<>>

\* mutant: the geometry bind transform is not compared
GeomCheckSkipped(u, m) == <<>>

\* the geometry bind transform check at the end of the detailed check
GeomCheck(u, m) ==
    IF ~MatricesMatch(u.geomBindTransform, m.geomBindTransform, D(DefaultTolerance))
    THEN <<Issue("GEOM_BIND_TRANSFORM_MISMATCH", NoIndex, <<>>, <<>>, <<>>)>>
    ELSE <<>>

\* the two scans, each followed by its summary issue, and the geometry check
SkinScans(u, m) ==
    LET idx == IndexScan(u, m, 0, 0)
        idxMore == IF idx.count > 5
                   THEN <<Issue("JOINT_INDEX_MISMATCH", NoIndex,
                                <<idx.count - 5>>, <<>>, <<>>)>>
                   ELSE <<>>
        wgt == WeightScan(u, m, 0, 0)
        wgtMore == IF wgt.count > 5
                   THEN <<Issue("WEIGHT_VALUE_MISMATCH", NoIndex,
                                <<wgt.count - 5>>, <<>>, <<>>)>>
                   ELSE <<>>
    IN idx.issues \o idxMore \o wgt.issues \o wgtMore \o GeomCheck(u, m)

\* mutant: after a count mismatch the geometry bind transform is still compared
DetailedValidateSkinBindingFallThrough(u, m) ==
    IF SkinCountChecks(u, m) # <<>> THEN SkinCountChecks(u, m) \o GeomCheck(u, m)
    ELSE SkinScans(u, m)

DetailedValidateSkinBinding(u, m) ==
    IF SkinCountChecks(u, m) # <<>> THEN SkinCountChecks(u, m)
    ELSE SkinScans(u, m)

----------------------------------------------------------------------------
(* skin-binding pairs handed to the validators *)

\* the largest number of (joint index, weight) samples of a generated binding
MaxSamples == 6

\* the i-th (1-based) sample of the reference binding: weights around 0.5
CanonIndex(i) == i % 3
CanonWeight(i) == D(5000000 + i)

\* the Maya samples: positions in idxOff carry another joint index, positions
\* in wgtOff a weight 2e-5 away, the others a weight exactly within tolerance
\* (near) or the same weight
MayaIndices(n, idxOff) == [i \in 1..n |-> IF i \in idxOff THEN CanonIndex(i) + 1 ELSE CanonIndex(i)]

MayaWeights(n, wgtOff, near) ==
    [i \in 1..n |->
        IF i \in wgtOff THEN CanonWeight(i) + 2 * DetailedWeightTolerance
        ELSE IF near THEN CanonWeight(i) - DetailedWeightTolerance
        ELSE CanonWeight(i)]

\* how the index and the weight mismatches of a pair relate to one set of
\* positions: only indices there, only weights, both, or indices there and
\* weights everywhere else
Patterns == {"indices", "weights", "both", "split"}

\* cut[1], cut[2], cut[3]: the USD weights, the Maya indices, the Maya weights
\* lose their last entry; geo 1 / 2: the Maya geometry bind transform is
\* exactly within / just outside the tolerance
SkinPair(n, off, pat, geo, cut) ==
    [usd |-> [jointIndices |-> [i \in 1..n |-> CanonIndex(i)],
              jointWeights |-> IF cut[1] THEN DropLast([i \in 1..n |-> CanonWeight(i)])
                               ELSE [i \in 1..n |-> CanonWeight(i)],
              geomBindTransform |-> ZeroMat],
     maya |-> [jointIndices |->
                   LET a == MayaIndices(n, IF pat \in {"indices", "both", "split"}
                                           THEN off ELSE {})
                   IN IF cut[2] THEN DropLast(a) ELSE a,
               jointWeights |->
                   LET w == MayaWeights(n, CASE pat \in {"weights", "both"} -> off
                                             [] pat = "split" -> (1..n) \ off
                                             [] OTHER -> {}, geo = 1)
                   IN IF cut[3] THEN DropLast(w) ELSE w,
               geomBindTransform |->
                   WithEntry(ZeroMat, 0, 0, D(DefaultTolerance + geo - 1))]]

EmptySkin == [jointIndices |-> <<>>, jointWeights |-> <<>>, geomBindTransform |-> ZeroMat]

NoSkinQuick == [called |-> FALSE, ret |-> FALSE]

IdleSkin ==
    /\ usdSkin = EmptySkin
    /\ mayaSkin = EmptySkin
    /\ skinPc = "idle"
    /\ skinQuick = NoSkinQuick
    /\ skinIssues = <<>>

InitSkin ==
    /\ \E n \in 0..MaxSamples, off \in SUBSET (1..MaxSamples), pat \in Patterns,
          geo \in {1, 2}, cut \in [1..3 -> BOOLEAN] :
          /\ usdSkin = SkinPair(n, off, pat, geo, cut).usd
          /\ mayaSkin = SkinPair(n, off, pat, geo, cut).maya
    /\ skinPc = "quick"
    /\ skinQuick = NoSkinQuick
    /\ skinIssues = <<>>

CallQuickValidateSkinBinding ==
    /\ skinPc = "quick"
    /\ skinQuick' = [called |-> TRUE, ret |-> QuickValidateSkinBinding(usdSkin, mayaSkin)]
    /\ skinPc' = "detailed"
    /\ UNCHANGED <<usdSkin, mayaSkin, skinIssues>>

CallDetailedValidateSkinBinding ==
    /\ skinPc = "detailed"
    /\ skinIssues' = DetailedValidateSkinBinding(usdSkin, mayaSkin)
    /\ skinPc' = "done"
    /\ UNCHANGED <<usdSkin, mayaSkin, skinQuick>>

----------------------------------------------------------------------------
(* parseUSDSkelData / parseAllUSDSkels.  A stage is the sequence of its    *)
(* prims in traversal order; a prim's path is its position.  An attribute  *)
(* is [has, val]: Get fails when has is FALSE.  A joint name is a path, a  *)
(* sequence of components.                                                 *)

\* the largest number of prims of a stage
MaxPrims == 2

\* the largest joint count of a skeleton prim
MaxUsdJoints == 2

\* UsdSkelTopology: the parent of joint i is the nearest proper ancestor of
\* its path among the joints, -1 when there is none
TopologyParent(joints, i) ==
    LET path == joints[i]
        found == {k \in 1..(Len(path) - 1) :
                     \E j \in DOMAIN joints : joints[j] = SubSeq(path, 1, k)}
    IN IF found = {} THEN -1
       ELSE LET k == CHOOSE x \in found : \A y \in found : y <= x
            IN (CHOOSE j \in DOMAIN joints : joints[j] = SubSeq(path, 1, k)) - 1

GetParentIndices(joints) == [i \in DOMAIN joints |-> TopologyParent(joints, i)]

NoSkeleton ==
    [ok |-> FALSE,
     skel |-> [primPath |-> 0, jointNames |-> <<>>, jointParentIndices |-> <<>>,
               bindTransforms |-> <<>>, restTransforms |-> <<>>]]

\* mutant: the size validation compares the two transform arrays with each
\* other instead of with the joint count
ParseUSDSkelDataBindVsRest(opens, stg, skelPath_) ==
    IF ~opens THEN NoSkeleton
    ELSE IF skelPath_ \notin DOMAIN stg THEN NoSkeleton
    ELSE LET prim == stg[skelPath_]
         IN IF ~prim.isSkel \/ ~prim.joints.has \/ ~prim.bind.has \/ ~prim.rest.has
            THEN NoSkeleton
            ELSE IF Len(prim.bind.val) # Len(prim.rest.val) THEN NoSkeleton
            ELSE [ok |-> TRUE,
                  skel |-> [primPath |-> skelPath_,
                            jointNames |-> prim.joints.val,
                            jointParentIndices |-> GetParentIndices(prim.joints.val),
                            bindTransforms |-> prim.bind.val,
                            restTransforms |-> prim.rest.val]]

\* parseUSDSkelData(filePath, skelPath): opens tells whether the file opens
ParseUSDSkelData(opens, stg, skelPath_) ==
    IF ~opens THEN NoSkeleton
    ELSE IF skelPath_ \notin DOMAIN stg THEN NoSkeleton
    ELSE LET prim == stg[skelPath_]
         IN IF ~prim.isSkel THEN NoSkeleton
            ELSE IF ~prim.joints.has THEN NoSkeleton
            ELSE LET jointNames == prim.joints.val
                     jointParentIndices == GetParentIndices(jointNames)
                 IN IF ~prim.bind.has THEN NoSkeleton
                    ELSE IF ~prim.rest.has THEN NoSkeleton
                    ELSE LET numJoints == Len(jointNames)
                         IN IF \/ Len(jointParentIndices) # numJoints
                               \/ Len(prim.bind.val) # numJoints
                               \/ Len(prim.rest.val) # numJoints
                            THEN NoSkeleton
                            ELSE [ok |-> TRUE,
                                  skel |-> [primPath |-> skelPath_,
                                            jointNames |-> jointNames,
                                            jointParentIndices |-> jointParentIndices,
                                            bindTransforms |-> prim.bind.val,
                                            restTransforms |-> prim.rest.val]]

\* the joints attribute of a chain of n joints: root, root/arm, root/arm/hand
ChainJoints(n) == [i \in 1..n |-> SubSeq(CanonNames, 1, i)]

Attr(has, val) == [has |-> has, val |-> val]

Mats(n) == IF n < 0 THEN <<>> ELSE [i \in 1..n |-> ZeroMat]

PrimKinds ==
    {"ok", "notSkel", "noJoints", "noBind", "noRest",
     "bindShort", "bindLong", "restShort", "restLong", "bothLong"}

\* a prim of n joints whose attributes are authored as kind says
Prim(n, kind) ==
    [isSkel |-> kind # "notSkel",
     joints |-> Attr(kind # "noJoints", ChainJoints(n)),
     bind |-> Attr(kind # "noBind",
                   Mats(CASE kind = "bindShort" -> n - 1
                          [] kind \in {"bindLong", "bothLong"} -> n + 1
                          [] OTHER -> n)),
     rest |-> Attr(kind # "noRest",
                   Mats(CASE kind = "restShort" -> n - 1
                          [] kind \in {"restLong", "bothLong"} -> n + 1
                          [] OTHER -> n))]

Prims == {Prim(n, kind) : n \in 0..MaxUsdJoints, kind \in PrimKinds}

NoParse == [called |-> FALSE, path |-> 0, ok |-> FALSE, skel |-> NoSkeleton.skel]

IdleUsd ==
    /\ stage = <<>>
    /\ stageOpens = FALSE
    /\ usdPc = "idle"
    /\ primIdx = 0
    /\ skeletons = <<>>
    /\ usdParsed = NoParse

InitUsd ==
    /\ \E n \in 0..MaxPrims : stage \in [1..n -> Prims]
    /\ stageOpens \in BOOLEAN
    /\ usdPc = "open"
    /\ primIdx = 0
    /\ skeletons = <<>>
    /\ usdParsed = NoParse

\* parseAllUSDSkels: UsdStage::Open fails and the empty list is returned
OpenStageFails ==
    /\ usdPc = "open" /\ ~stageOpens
    /\ usdPc' = "done"
    /\ UNCHANGED <<stage, stageOpens, primIdx, skeletons, usdParsed>>

\* parseAllUSDSkels: the stage opens and the traversal starts
OpenStage ==
    /\ usdPc = "open" /\ stageOpens
    /\ usdPc' = "traverse"
    /\ primIdx' = 1
    /\ UNCHANGED <<stage, stageOpens, skeletons, usdParsed>>

\* one iteration of the traversal: a prim that is no skeleton is passed over
VisitOtherPrim ==
    /\ usdPc = "traverse" /\ primIdx <= Len(stage)
    /\ ~stage[primIdx].isSkel
    /\ primIdx' = primIdx + 1
    /\ UNCHANGED <<stage, stageOpens, usdPc, skeletons, usdParsed>>

\* one iteration of the traversal: a skeleton prim is parsed, and pushed to
\* the list when parseUSDSkelData returned one
VisitSkeletonPrim ==
    /\ usdPc = "traverse" /\ primIdx <= Len(stage)
    /\ stage[primIdx].isSkel
    /\ LET skelData == ParseUSDSkelData(stageOpens, stage, primIdx)
       IN /\ usdParsed' = [called |-> TRUE, path |-> primIdx,
                           ok |-> skelData.ok, skel |-> skelData.skel]
          /\ skeletons' = IF skelData.ok THEN Append(skeletons, skelData.skel)
                          ELSE skeletons
    /\ primIdx' = primIdx + 1
    /\ UNCHANGED <<stage, stageOpens, usdPc>>

\* the traversal is over: the list is returned
ReturnSkeletons ==
    /\ usdPc = "traverse" /\ primIdx > Len(stage)
    /\ usdPc' = "done"
    /\ UNCHANGED <<stage, stageOpens, primIdx, skeletons, usdParsed>>

----------------------------------------------------------------------------
(* parseMayaSkin: the common root of the influences.  A string is a        *)
(* sequence of characters, an MDagPath the sequence of its node names.     *)

\* the largest number of influence objects
MaxInfluences == 2

\* the largest number of nodes on an influence's path
MaxDepth == 2

NodeNames == {<<"a">>, <<"a", "b">>, <<"c">>}

DagPaths == UNION {[1..d -> NodeNames] : d \in 1..MaxDepth}

RECURSIVE FullPathName(_)
\* MDagPath::fullPathName: every node name preceded by "|"
FullPathName(path) ==
    IF Len(path) = 0 THEN <<>>
    ELSE FullPathName(SubSeq(path, 1, Len(path) - 1)) \o <<"|">> \o path[Len(path)]

\* MString::indexW: the 0-based position of the first occurrence of sub in
\* str, -1 when there is none
IndexW(str, sub) ==
    LET at == {k \in 0..(Len(str) - Len(sub)) : SubSeq(str, k + 1, k + Len(sub)) = sub}
    IN IF at = {} THEN -1 ELSE CHOOSE k \in at : \A other \in at : k <= other

\* MDagPath::pop
Pop(path) == SubSeq(path, 1, Len(path) - 1)

\* the inner for loop: every influence but the first starts with the root
\* path's full name
IsCommonRoot(path, influences) ==
    LET rootPathStr == FullPathName(path)
    IN \A i \in 2..Len(influences) :
          IndexW(FullPathName(influences[i]), rootPathStr) = 0

IdleRoot ==
    /\ influencePaths = <<>>
    /\ skelPath = <<>>
    /\ rootPc = "idle"

InitRoot ==
    /\ \E n \in 0..MaxInfluences : influencePaths \in [1..n -> DagPaths]
    /\ skelPath = <<>>
    /\ rootPc = "start"

\* numInfluences == 0: parseMayaSkin returns nullptr
NoInfluences ==
    /\ rootPc = "start" /\ Len(influencePaths) = 0
    /\ rootPc' = "failed"
    /\ UNCHANGED <<influencePaths, skelPath>>

\* data->skelPath = influencePaths[0]
StartAtFirstInfluence ==
    /\ rootPc = "start" /\ Len(influencePaths) > 0
    /\ skelPath' = influencePaths[1]
    /\ rootPc' = "loop"
    /\ UNCHANGED influencePaths

\* one iteration of the while loop that ends in skelPath.pop()
PopSkelPath ==
    /\ rootPc = "loop" /\ Len(skelPath) > 0
    /\ ~IsCommonRoot(skelPath, influencePaths)
    /\ skelPath' = Pop(skelPath)
    /\ UNCHANGED <<influencePaths, rootPc>>

\* the while loop ends: by its condition, or by break on a common root
EndRootLoop ==
    /\ rootPc = "loop"
    /\ Len(skelPath) = 0 \/ IsCommonRoot(skelPath, influencePaths)
    /\ rootPc' = "done"
    /\ UNCHANGED <<influencePaths, skelPath>>

----------------------------------------------------------------------------
(* parseMayaSkel.  The scene is a tree of DAG nodes 1..MaxNodes: par[i] is *)
(* the parent of node i (0 is the world), children are visited in          *)
(* ascending order, siblings have distinct names.  An MDagPath is the      *)
(* sequence of the nodes from the world down to its node.                  *)

\* the number of DAG nodes of the scene
MaxNodes == 3

ShortNames == {"j", "k"}

Nodes == 1..MaxNodes

RECURSIVE PathOf(_, _)
\* the MDagPath of node i
PathOf(sc, i) == IF i = 0 THEN <<>> ELSE Append(PathOf(sc, sc.par[i]), i)

\* the node names along a path
PathNames(sc, path) == [k \in DOMAIN path |-> sc.name[path[k]]]

IsSuffix(suf, names) ==
    Len(suf) <= Len(names) /\ SubSeq(names, Len(names) - Len(suf) + 1, Len(names)) = suf

\* mutant: the name of the node alone, ambiguous when two nodes share a name
PartialPathNameShort(sc, path) == <<sc.name[path[Len(path)]]>>

\* MDagPath::partialPathName: the shortest tail of the path's names that no
\* other path of the scene ends with; the full path name, with its leading
\* "|", when every tail is ambiguous
PartialPathName(sc, path) ==
    LET names == PathNames(sc, path)
        tail(k) == SubSeq(names, Len(names) - k + 1, Len(names))
        unique == {k \in 1..Len(names) :
                      \A other \in Nodes :
                         PathOf(sc, other) # path =>
                            ~IsSuffix(tail(k), PathNames(sc, PathOf(sc, other)))}
    IN IF unique = {} THEN <<"|">> \o names
       ELSE tail(CHOOSE k \in unique : \A other \in unique : k <= other)

\* std::map operator[]: insert or overwrite
MapPut(map, key, value) ==
    [x \in (DOMAIN map) \cup {key} |-> IF x = key THEN value ELSE map[x]]

EmptyMap == [x \in {} |-> 0]

\* dagNode.child(i) for i = 0 .. childCount() - 1
Children(sc, node) ==
    SelectSeq([i \in 1..MaxNodes |-> i], LAMBDA c : sc.par[c] = node)

\* a fault is the MStatus failure of one Maya call on one node
NoFault == [kind |-> "none", node |-> 0]

Faults ==
    {NoFault, [kind |-> "rootMatrix", node |-> 0]}
    \cup {[kind |-> k, node |-> n] : k \in {"dagNode", "extract"}, n \in Nodes}

RECURSIVE TraverseJoints(_, _, _, _), TraverseChildren(_, _, _, _, _)
\* the lambda traverseJoints; acc is [paths, map]: jointPaths and
\* jointNameToIndex
TraverseJoints(sc, flt, node, acc) ==
    IF flt = [kind |-> "dagNode", node |-> node] THEN acc
    ELSE LET dagPath == PathOf(sc, node)
             currentIndex == Len(acc.paths)
             added == [paths |-> Append(acc.paths, dagPath),
                       map |-> MapPut(acc.map, PartialPathName(sc, dagPath), currentIndex)]
         IN TraverseChildren(sc, flt, Children(sc, node), 1, added)

\* the for loop over the children inside traverseJoints
TraverseChildren(sc, flt, children, i, acc) ==
    IF i > Len(children) THEN acc
    ELSE TraverseChildren(sc, flt, children, i + 1,
             IF sc.joint[children[i]]
             THEN TraverseJoints(sc, flt, children[i], acc)
             ELSE acc)

\* lines 247-259: the parent index of the joint at jointPath
ParentIndex(sc, map, jointPath) ==
    IF Len(jointPath) > 1
    THEN LET parentPath == Pop(jointPath)
         IN IF sc.joint[parentPath[Len(parentPath)]]
            THEN LET key == PartialPathName(sc, parentPath)
                 IN IF key \in DOMAIN map THEN map[key] ELSE -1
            ELSE -1
    ELSE -1

EmptySkelData ==
    [jointNames |-> <<>>, jointParentIndices |-> <<>>,
     bindTransforms |-> <<>>, restTransforms |-> <<>>]

\* siblings have distinct names
SceneOk(sc) ==
    \A a, b \in Nodes : (a # b /\ sc.par[a] = sc.par[b]) => sc.name[a] # sc.name[b]

IdleJoints ==
    /\ scene = [par |-> <<>>, joint |-> <<>>, name |-> <<>>]
    /\ rootNode = 0
    /\ fault = NoFault
    /\ mayaPc = "idle"
    /\ jointPaths = <<>>
    /\ jointNameToIndex = EmptyMap
    /\ extractIdx = 0
    /\ mayaSkelData = EmptySkelData

InitJoints ==
    /\ \E par \in [Nodes -> 0..(MaxNodes - 1)],
          joint \in [Nodes -> BOOLEAN],
          name \in [Nodes -> ShortNames] :
          /\ \A i \in Nodes : par[i] < i
          /\ scene = [par |-> par, joint |-> joint, name |-> name]
    /\ SceneOk(scene)
    /\ rootNode \in Nodes
    /\ fault \in Faults
    /\ mayaPc = "start"
    /\ jointPaths = <<>>
    /\ jointNameToIndex = EmptyMap
    /\ extractIdx = 0
    /\ mayaSkelData = EmptySkelData

\* the root is no joint: nullptr
RejectRoot ==
    /\ mayaPc = "start" /\ ~scene.joint[rootNode]
    /\ mayaPc' = "failed"
    /\ UNCHANGED <<scene, rootNode, fault, jointPaths, jointNameToIndex, extractIdx, mayaSkelData>>

\* root.inclusiveMatrix fails: nullptr
RootMatrixFails ==
    /\ mayaPc = "start" /\ scene.joint[rootNode]
    /\ fault.kind = "rootMatrix"
    /\ mayaPc' = "failed"
    /\ UNCHANGED <<scene, rootNode, fault, jointPaths, jointNameToIndex, extractIdx, mayaSkelData>>

\* traverseJoints(root)
CallTraverseJoints ==
    /\ mayaPc = "start" /\ scene.joint[rootNode]
    /\ fault.kind # "rootMatrix"
    /\ LET walked == TraverseJoints(scene, fault, rootNode,
                                    [paths |-> <<>>, map |-> EmptyMap])
       IN /\ jointPaths' = walked.paths
          /\ jointNameToIndex' = walked.map
    /\ mayaPc' = "extract"
    /\ extractIdx' = 0
    /\ UNCHANGED <<scene, rootNode, fault, mayaSkelData>>

\* jointPaths.empty(): nullptr
NoJointsFound ==
    /\ mayaPc = "extract" /\ Len(jointPaths) = 0
    /\ mayaPc' = "failed"
    /\ UNCHANGED <<scene, rootNode, fault, jointPaths, jointNameToIndex, extractIdx, mayaSkelData>>

\* one iteration of the extraction loop in which a Maya call fails: nullptr
ExtractJointFails ==
    /\ mayaPc = "extract" /\ Len(jointPaths) > 0 /\ extractIdx < Len(jointPaths)
    /\ LET jointPath == jointPaths[extractIdx + 1]
       IN fault = [kind |-> "extract", node |-> jointPath[Len(jointPath)]]
    /\ mayaPc' = "failed"
    /\ UNCHANGED <<scene, rootNode, fault, jointPaths, jointNameToIndex, extractIdx, mayaSkelData>>

\* one iteration of the extraction loop
ExtractJoint ==
    /\ mayaPc = "extract" /\ Len(jointPaths) > 0 /\ extractIdx < Len(jointPaths)
    /\ LET jointPath == jointPaths[extractIdx + 1]
       IN /\ fault # [kind |-> "extract", node |-> jointPath[Len(jointPath)]]
          /\ mayaSkelData' =
                [jointNames |-> Append(mayaSkelData.jointNames, PartialPathName(scene, jointPath)),
                 jointParentIndices |-> Append(mayaSkelData.jointParentIndices,
                                               ParentIndex(scene, jointNameToIndex, jointPath)),
                 bindTransforms |-> Append(mayaSkelData.bindTransforms, ZeroMat),
                 restTransforms |-> Append(mayaSkelData.restTransforms, ZeroMat)]
    /\ extractIdx' = extractIdx + 1
    /\ UNCHANGED <<scene, rootNode, fault, mayaPc, jointPaths, jointNameToIndex>>

\* the loop is over: mayaSkelData is returned
ReturnSkelData ==
    /\ mayaPc = "extract" /\ Len(jointPaths) > 0 /\ extractIdx = Len(jointPaths)
    /\ mayaPc' = "done"
    /\ UNCHANGED <<scene, rootNode, fault, jointPaths, jointNameToIndex, extractIdx, mayaSkelData>>

----------------------------------------------------------------------------
(* parseMayaSkin: the weight loop.  vertexWeights[v] is the weights array  *)
(* that getWeights returns for vertex v, one entry per influence.  A float *)
(* is written as the fixed-point value it is nearest to: between 1e-7 and  *)
(* 1 floats are spaced closer than 1e-7, so that distinct values of the    *)
(* model stay distinct.                                                    *)

\* the largest number of vertices of the mesh
MaxVertices == 2

\* the largest number of influences of the skin cluster
MaxInfluenceCount == 5

\* 0.0001
WeightThreshold == 1000

\* the estimate of influences per vertex
PreallocPerVertex == 4

\* the value of an array entry that setLength added and nothing wrote yet
Unset == -1

\* static_cast<float>
ToFloat(x) == x

\* MIntArray / MFloatArray setLength
SetLength(array, n) ==
    [k \in 1..n |-> IF k <= Len(array) THEN array[k] ELSE Unset]

\* mutant: the array is grown only once the index is beyond its length
NeedsSpaceOffByOne(index, length) == index > length

\* arrayIndex >= data->jointIndices.length()
NeedsSpace(index, length) == index >= length

\* array[index] = value, index 0-based; a write outside the array is left out
WriteAt(array, index, value) ==
    IF index < Len(array) THEN [array EXCEPT ![index + 1] = value] ELSE array

AboveThreshold == D(5000)

WeightPatterns == {"all", "none", "alternate", "first", "butFirst", "nan"}

\* the weights of one vertex for n influences
WeightRow(n, pattern) ==
    [i \in 1..n |->
        CASE pattern = "all" -> AboveThreshold
          [] pattern = "none" -> D(WeightThreshold)
          [] pattern = "alternate" -> IF i % 2 = 1 THEN AboveThreshold ELSE D(0)
          [] pattern = "first" -> IF i = 1 THEN AboveThreshold ELSE D(WeightThreshold)
          [] pattern = "butFirst" -> IF i = 1 THEN D(0) ELSE AboveThreshold + i
          [] OTHER -> NaN]

IdleWeights ==
    /\ vertexWeights = <<>>
    /\ weightPc = "idle"
    /\ vertexIdx = 0
    /\ influenceIdx = 0
    /\ arrayIndex = 0
    /\ jointIndices = <<>>
    /\ jointWeights = <<>>
    /\ wroteOutside = FALSE

InitWeights ==
    /\ \E vertexCount \in 0..MaxVertices, influenceCount \in 0..MaxInfluenceCount :
          \E patterns \in [1..vertexCount -> WeightPatterns] :
             vertexWeights = [v \in 1..vertexCount |-> WeightRow(influenceCount, patterns[v])]
    /\ weightPc = "start"
    /\ vertexIdx = 0
    /\ influenceIdx = 0
    /\ arrayIndex = 0
    /\ jointIndices = <<>>
    /\ jointWeights = <<>>
    /\ wroteOutside = FALSE

\* lines 375-382: both arrays get 4 entries per vertex
Preallocate ==
    /\ weightPc = "start"
    /\ LET vertexCount == Len(vertexWeights)
       IN /\ jointIndices' = SetLength(jointIndices, vertexCount * PreallocPerVertex)
          /\ jointWeights' = SetLength(jointWeights, vertexCount * PreallocPerVertex)
    /\ arrayIndex' = 0
    /\ vertexIdx' = 0
    /\ influenceIdx' = 0
    /\ weightPc' = "loop"
    /\ UNCHANGED <<vertexWeights, wroteOutside>>

\* one iteration of the inner loop: the weight is not above the threshold
SkipWeight ==
    /\ weightPc = "loop" /\ vertexIdx < Len(vertexWeights)
    /\ influenceIdx < Len(vertexWeights[vertexIdx + 1])
    /\ ~Gt(vertexWeights[vertexIdx + 1][influenceIdx + 1], D(WeightThreshold))
    /\ influenceIdx' = influenceIdx + 1
    /\ UNCHANGED <<vertexWeights, weightPc, vertexIdx, arrayIndex,
                   jointIndices, jointWeights, wroteOutside>>

\* one iteration of the inner loop: the weight is stored, the arrays being
\* grown by the vertex count first when they are full
StoreWeight ==
    /\ weightPc = "loop" /\ vertexIdx < Len(vertexWeights)
    /\ influenceIdx < Len(vertexWeights[vertexIdx + 1])
    /\ Gt(vertexWeights[vertexIdx + 1][influenceIdx + 1], D(WeightThreshold))
    /\ LET vertexCount == Len(vertexWeights)
           full == NeedsSpace(arrayIndex, Len(jointIndices))
           indices == IF full THEN SetLength(jointIndices, Len(jointIndices) + vertexCount)
                      ELSE jointIndices
           weights == IF full THEN SetLength(jointWeights, Len(jointWeights) + vertexCount)
                      ELSE jointWeights
       IN /\ jointIndices' = WriteAt(indices, arrayIndex, influenceIdx)
          /\ jointWeights' = WriteAt(weights, arrayIndex,
                                     ToFloat(vertexWeights[vertexIdx + 1][influenceIdx + 1]))
          /\ wroteOutside' = (\/ wroteOutside
                              \/ arrayIndex >= Len(indices)
                              \/ arrayIndex >= Len(weights))
    /\ arrayIndex' = arrayIndex + 1
    /\ influenceIdx' = influenceIdx + 1
    /\ UNCHANGED <<vertexWeights, weightPc, vertexIdx>>

\* the inner loop is over: geoIter.next()
NextVertex ==
    /\ weightPc = "loop" /\ vertexIdx < Len(vertexWeights)
    /\ influenceIdx = Len(vertexWeights[vertexIdx + 1])
    /\ vertexIdx' = vertexIdx + 1
    /\ influenceIdx' = 0
    /\ UNCHANGED <<vertexWeights, weightPc, arrayIndex, jointIndices, jointWeights,
                   wroteOutside>>

\* geoIter.isDone(): both arrays are trimmed to arrayIndex and returned
TrimArrays ==
    /\ weightPc = "loop" /\ vertexIdx = Len(vertexWeights)
    /\ jointIndices' = SetLength(jointIndices, arrayIndex)
    /\ jointWeights' = SetLength(jointWeights, arrayIndex)
    /\ weightPc' = "done"
    /\ UNCHANGED <<vertexWeights, vertexIdx, influenceIdx, arrayIndex, wroteOutside>>

----------------------------------------------------------------------------
(* specifications *)

NextMat == CallMatricesMatch /\ UNCHANGED <<skelVars, skinVars, usdVars, rootVars, jointVars, weightVars>>

MatInit == InitMat /\ IdleSkel /\ IdleSkin /\ IdleUsd /\ IdleRoot /\ IdleJoints /\ IdleWeights

SpecMat == MatInit /\ [][NextMat]_vars

NextSkel ==
    \/ CallQuickValidateSkeleton /\ UNCHANGED <<matVars, skinVars, usdVars, rootVars, jointVars, weightVars>>
    \/ CallDetailedValidateSkeleton /\ UNCHANGED <<matVars, skinVars, usdVars, rootVars, jointVars, weightVars>>

SkelInit == InitSkel /\ IdleMat /\ IdleSkin /\ IdleUsd /\ IdleRoot /\ IdleJoints /\ IdleWeights

SpecSkel == SkelInit /\ [][NextSkel]_vars

NextSkin ==
    \/ CallQuickValidateSkinBinding /\ UNCHANGED <<matVars, skelVars, usdVars, rootVars, jointVars, weightVars>>
    \/ CallDetailedValidateSkinBinding /\ UNCHANGED <<matVars, skelVars, usdVars, rootVars, jointVars, weightVars>>

SkinInit == InitSkin /\ IdleMat /\ IdleSkel /\ IdleUsd /\ IdleRoot /\ IdleJoints /\ IdleWeights

SpecSkin == SkinInit /\ [][NextSkin]_vars

NextUsd ==
    \/ OpenStageFails /\ UNCHANGED <<matVars, skelVars, skinVars, rootVars, jointVars, weightVars>>
    \/ OpenStage /\ UNCHANGED <<matVars, skelVars, skinVars, rootVars, jointVars, weightVars>>
    \/ VisitOtherPrim /\ UNCHANGED <<matVars, skelVars, skinVars, rootVars, jointVars, weightVars>>
    \/ VisitSkeletonPrim /\ UNCHANGED <<matVars, skelVars, skinVars, rootVars, jointVars, weightVars>>
    \/ ReturnSkeletons /\ UNCHANGED <<matVars, skelVars, skinVars, rootVars, jointVars, weightVars>>

UsdInit == InitUsd /\ IdleMat /\ IdleSkel /\ IdleSkin /\ IdleRoot /\ IdleJoints /\ IdleWeights

SpecUsd == UsdInit /\ [][NextUsd]_vars

NextRoot ==
    \/ NoInfluences /\ UNCHANGED <<matVars, skelVars, skinVars, usdVars, jointVars, weightVars>>
    \/ StartAtFirstInfluence /\ UNCHANGED <<matVars, skelVars, skinVars, usdVars, jointVars, weightVars>>
    \/ PopSkelPath /\ UNCHANGED <<matVars, skelVars, skinVars, usdVars, jointVars, weightVars>>
    \/ EndRootLoop /\ UNCHANGED <<matVars, skelVars, skinVars, usdVars, jointVars, weightVars>>

RootInit == InitRoot /\ IdleMat /\ IdleSkel /\ IdleSkin /\ IdleUsd /\ IdleJoints /\ IdleWeights

SpecRoot == RootInit /\ [][NextRoot]_vars

NextJoints ==
    \/ RejectRoot /\ UNCHANGED <<matVars, skelVars, skinVars, usdVars, rootVars, weightVars>>
    \/ RootMatrixFails /\ UNCHANGED <<matVars, skelVars, skinVars, usdVars, rootVars, weightVars>>
    \/ CallTraverseJoints /\ UNCHANGED <<matVars, skelVars, skinVars, usdVars, rootVars, weightVars>>
    \/ NoJointsFound /\ UNCHANGED <<matVars, skelVars, skinVars, usdVars, rootVars, weightVars>>
    \/ ExtractJointFails /\ UNCHANGED <<matVars, skelVars, skinVars, usdVars, rootVars, weightVars>>
    \/ ExtractJoint /\ UNCHANGED <<matVars, skelVars, skinVars, usdVars, rootVars, weightVars>>
    \/ ReturnSkelData /\ UNCHANGED <<matVars, skelVars, skinVars, usdVars, rootVars, weightVars>>

JointsInit == InitJoints /\ IdleMat /\ IdleSkel /\ IdleSkin /\ IdleUsd /\ IdleRoot /\ IdleWeights

SpecJoints == JointsInit /\ [][NextJoints]_vars

NextWeights ==
    \/ Preallocate /\ UNCHANGED <<matVars, skelVars, skinVars, usdVars, rootVars, jointVars>>
    \/ SkipWeight /\ UNCHANGED <<matVars, skelVars, skinVars, usdVars, rootVars, jointVars>>
    \/ StoreWeight /\ UNCHANGED <<matVars, skelVars, skinVars, usdVars, rootVars, jointVars>>
    \/ NextVertex /\ UNCHANGED <<matVars, skelVars, skinVars, usdVars, rootVars, jointVars>>
    \/ TrimArrays /\ UNCHANGED <<matVars, skelVars, skinVars, usdVars, rootVars, jointVars>>

WeightsInit ==
    InitWeights /\ IdleMat /\ IdleSkel /\ IdleSkin /\ IdleUsd /\ IdleRoot /\ IdleJoints

SpecWeights == WeightsInit /\ [][NextWeights]_vars

\* the whole program: any one of the operations above on its inputs
Init ==
    MatInit \/ SkelInit \/ SkinInit \/ UsdInit \/ RootInit \/ JointsInit \/ WeightsInit

Next ==
    NextMat \/ NextSkel \/ NextSkin \/ NextUsd \/ NextRoot \/ NextJoints \/ NextWeights

Spec == Init /\ [][Next]_vars

----------------------------------------------------------------------------
(* claims about the skeleton validators, checked under SpecSkel *)

SkelDone == skelPc = "done"

JointCountsEqual == Len(usdSkel.jointNames) = Len(mayaSkel.jointNames)

\* no read past the end of an array happened in either call
SkelInBounds ==
    /\ ~quickOut.crashed /\ ~quickOut.oob
    /\ ~detailOut.crashed /\ ~detailOut.oob

\* some array's length differs from the joint-name count of its skeleton or
\* from the length of the same array of the other skeleton
SkelLengthMismatch ==
    \/ ~WellFormed(usdSkel)
    \/ ~WellFormed(mayaSkel)
    \/ \E f \in {NameField, ParentField, BindField, RestField} :
          Len(usdSkel[f]) # Len(mayaSkel[f])

\* C1: for every skeleton pair, also one whose arrays differ in length,
\* quickValidateSkeleton returns true iff detailedValidateSkeleton returns no
\* issue (stated here for the runs in which every read stayed in bounds)
C1_QuickIffDetailedEmpty ==
    (SkelDone /\ SkelInBounds) => (quickOut.ret <=> detailOut.issues = <<>>)

\* C4: when the joint counts differ, detailedValidateSkeleton returns exactly
\* one issue, the joint-count mismatch with no index and both counts, and no
\* per-joint element is read or compared
C4_CountMismatchOnly ==
    (SkelDone /\ ~JointCountsEqual) =>
        /\ ~detailOut.crashed /\ ~detailOut.oob
        /\ detailOut.issues =
              <<Issue("JOINT_COUNT_MISMATCH", NoIndex,
                      <<Len(usdSkel.jointNames), Len(mayaSkel.jointNames)>>, <<>>, <<>>)>>

\* a pair with different joint counts that also differs in a joint both have
C4_Witness ==
    /\ SkelDone /\ ~JointCountsEqual
    /\ Len(detailOut.issues) = 1
    /\ \E i \in DOMAIN usdSkel.jointNames \cap DOMAIN mayaSkel.jointNames :
          usdSkel.jointNames[i] # mayaSkel.jointNames[i]
    /\ \E f \in {ParentField, BindField, RestField} : Len(usdSkel[f]) > Len(mayaSkel[f])

\* C6: for every pair, also a malformed one, both validators return with every
\* read in bounds, and a length mismatch is reported: false by the quick
\* check, an issue by the detailed check
C6_LengthMismatchReported ==
    SkelDone =>
        /\ SkelInBounds
        /\ SkelLengthMismatch => (~quickOut.ret /\ detailOut.issues # <<>>)

\* the (0-based) joint positions at which array f mismatches
MismatchAt(f) ==
    {i \in 0..(Len(usdSkel[f]) - 1) : Mismatch(f, usdSkel[f][i + 1], mayaSkel[f][i + 1])}

FieldRank(type) == CHOOSE k \in 1..Len(SkelFields) : IssueType(SkelFields[k]) = type

\* C7: for two well-formed skeletons of equal joint count the detailed check
\* reports every mismatching (joint, attribute) pair by exactly one
\* index-tagged issue and nothing else, names first, then parent indices,
\* bind transforms, rest transforms, each group by ascending joint index
C7_ExhaustiveOrdered ==
    (SkelDone /\ JointCountsEqual /\ WellFormed(usdSkel) /\ WellFormed(mayaSkel)) =>
        LET out == detailOut.issues
        IN /\ ~detailOut.crashed /\ ~detailOut.oob
           /\ \A k \in 1..Len(SkelFields) : \A i \in MismatchAt(SkelFields[k]) :
                 Cardinality({p \in DOMAIN out :
                                 /\ out[p].type = IssueType(SkelFields[k])
                                 /\ out[p].index = i}) = 1
           /\ \A p \in DOMAIN out :
                 \E k \in 1..Len(SkelFields) :
                    /\ out[p].type = IssueType(SkelFields[k])
                    /\ out[p].index \in MismatchAt(SkelFields[k])
           /\ \A p, q \in DOMAIN out :
                 p < q => \/ FieldRank(out[p].type) < FieldRank(out[q].type)
                          \/ /\ out[p].type = out[q].type
                             /\ out[p].index < out[q].index

\* a name mismatch at a later joint is reported before a bind-transform
\* mismatch at an earlier joint
C7_Witness ==
    /\ SkelDone /\ JointCountsEqual /\ WellFormed(usdSkel) /\ WellFormed(mayaSkel)
    /\ Len(detailOut.issues) = 2
    /\ detailOut.issues[1].type = "JOINT_NAME_MISMATCH"
    /\ detailOut.issues[2].type = "BIND_TRANSFORM_MISMATCH"
    /\ detailOut.issues[1].index > detailOut.issues[2].index

----------------------------------------------------------------------------
(* claim about matricesMatch, checked under SpecMat *)

\* C3: matricesMatch(a, b, tol) is true iff the absolute difference of each of
\* the 16 corresponding entries is at most tol
C3_MatchIffAllWithinTolerance ==
    matchOut.called =>
        (matchOut.ret <=>
            \A row \in 1..4 : \A col \in 1..4 :
                Le(Abs(Sub(usdMat[row][col], mayaMat[row][col])), tolerance))

----------------------------------------------------------------------------
(* claims about the skin-binding validators, checked under SpecSkin *)

SkinDone == skinPc = "done"

SkinLengthsEqual ==
    /\ Len(usdSkin.jointIndices) = Len(mayaSkin.jointIndices)
    /\ Len(usdSkin.jointWeights) = Len(mayaSkin.jointWeights)

\* C2: quickValidateSkinBinding returns true iff detailedValidateSkinBinding
\* returns no issue
C2_SkinQuickIffDetailedEmpty ==
    SkinDone => (skinQuick.ret <=> skinIssues = <<>>)

\* both checks pass on bindings whose weights and geometry bind transforms
\* differ by exactly the tolerance
C2_Witness ==
    /\ SkinDone /\ skinQuick.ret /\ skinIssues = <<>>
    /\ Len(usdSkin.jointWeights) >= 2
    /\ \A i \in DOMAIN usdSkin.jointWeights :
          usdSkin.jointWeights[i] # mayaSkin.jointWeights[i]
    /\ usdSkin.geomBindTransform # mayaSkin.geomBindTransform

\* the first-5 cap of the detailed skin-binding check
ReportCap == 5

\* the (0-based) positions at which the joint indices differ
IndexMismatches ==
    {i \in 0..(Len(usdSkin.jointIndices) - 1) :
        usdSkin.jointIndices[i + 1] # mayaSkin.jointIndices[i + 1]}

\* the (0-based) positions at which the weights differ by more than 1e-5
WeightMismatches ==
    {i \in 0..(Len(usdSkin.jointWeights) - 1) :
        LET a == usdSkin.jointWeights[i + 1]
            b == mayaSkin.jointWeights[i + 1]
        IN (IF a > b THEN a - b ELSE b - a) > DetailedWeightTolerance}

IssuesOfType(type) == SelectSeq(skinIssues, LAMBDA x : x.type = type)

\* group holds the issues of one scan with mismatch positions K: the
\* min(|K|, 5) lowest positions of K ascending, each tagged with its
\* position, then one untagged summary carrying |K| - 5 iff |K| > 5
CappedReport(group, K) ==
    LET k == Cardinality(K)
        shown == IF k > ReportCap THEN ReportCap ELSE k
    IN /\ Len(group) = shown + (IF k > ReportCap THEN 1 ELSE 0)
       /\ \A p \in 1..shown :
             /\ group[p].index \in K
             /\ Cardinality({j \in K : j < group[p].index}) = p - 1
       /\ k > ReportCap =>
             /\ group[shown + 1].index = NoIndex
             /\ group[shown + 1].ints = <<k - ReportCap>>

\* C5: with equal sequence lengths, each scan of detailedValidateSkinBinding
\* (joint indices, then weights) reports its k mismatches as min(k, 5)
\* index-tagged issues for the lowest positions in ascending order, followed
\* by one untagged summary issue carrying k - 5 exactly when k > 5
C5_FirstFiveThenSummary ==
    (SkinDone /\ SkinLengthsEqual) =>
        /\ CappedReport(IssuesOfType("JOINT_INDEX_MISMATCH"), IndexMismatches)
        /\ CappedReport(IssuesOfType("WEIGHT_VALUE_MISMATCH"), WeightMismatches)
        /\ \A p, q \in DOMAIN skinIssues :
              (/\ skinIssues[p].type = "WEIGHT_VALUE_MISMATCH"
               /\ skinIssues[q].type = "JOINT_INDEX_MISMATCH") => q < p

\* six mismatches in each scan: five tagged issues and a summary of 1 each
C5_Witness ==
    /\ SkinDone /\ SkinLengthsEqual
    /\ Cardinality(IndexMismatches) > ReportCap
    /\ Cardinality(WeightMismatches) > ReportCap
    /\ Len(IssuesOfType("JOINT_INDEX_MISMATCH")) = ReportCap + 1
    /\ Len(IssuesOfType("WEIGHT_VALUE_MISMATCH")) = ReportCap + 1
    /\ skinIssues[ReportCap + 1].index = NoIndex
    /\ skinIssues[ReportCap + 1].ints = <<Cardinality(IndexMismatches) - ReportCap>>

\* C8: if the joint-index lengths differ, or else the weight lengths differ,
\* detailedValidateSkinBinding returns exactly one count-mismatch issue and
\* nothing else: no index, weight or geometry issue
C8_SkinCountMismatchOnly ==
    SkinDone =>
        /\ Len(usdSkin.jointIndices) # Len(mayaSkin.jointIndices) =>
              skinIssues = <<Issue("WEIGHT_COUNT_MISMATCH", NoIndex,
                                   <<Len(usdSkin.jointIndices), Len(mayaSkin.jointIndices)>>,
                                   <<"Joint indices">>, <<>>)>>
        /\ (/\ Len(usdSkin.jointIndices) = Len(mayaSkin.jointIndices)
            /\ Len(usdSkin.jointWeights) # Len(mayaSkin.jointWeights)) =>
              skinIssues = <<Issue("WEIGHT_COUNT_MISMATCH", NoIndex,
                                   <<Len(usdSkin.jointWeights), Len(mayaSkin.jointWeights)>>,
                                   <<"Joint weights">>, <<>>)>>

\* only the weight lengths differ, while joint indices and the geometry bind
\* transform mismatch too
C8_Witness ==
    /\ SkinDone
    /\ Len(usdSkin.jointIndices) = Len(mayaSkin.jointIndices)
    /\ Len(usdSkin.jointWeights) # Len(mayaSkin.jointWeights)
    /\ IndexMismatches # {}
    /\ ~MatricesMatch(usdSkin.geomBindTransform, mayaSkin.geomBindTransform,
                      D(DefaultTolerance))
    /\ Len(skinIssues) = 1

----------------------------------------------------------------------------
(* claim about the USD extraction, checked under SpecUsd *)

\* prim p yields a skeleton: a skeleton prim whose three attributes read and
\* whose transform arrays have one entry per joint name
GoodPrim(p) ==
    /\ p.isSkel /\ p.joints.has /\ p.bind.has /\ p.rest.has
    /\ Len(p.bind.val) = Len(p.joints.val)
    /\ Len(p.rest.val) = Len(p.joints.val)

\* the paths of the prims of the stage that yield a skeleton, in traversal order
GoodPaths == SelectSeq([i \in 1..Len(stage) |-> i], LAMBDA i : GoodPrim(stage[i]))

\* C9: parseUSDSkelData returns no skeleton when the parent-index, bind- or
\* rest-transform count differs from the joint-name count; every skeleton in
\* the list of parseAllUSDSkels has four arrays of one length; a skeleton
\* that failed to parse is skipped and the enumeration continues, so that
\* the list returned holds exactly the well-formed skeletons of the stage
C9_NoMalformedSkeleton ==
    /\ usdParsed.called =>
          /\ usdParsed.ok => WellFormed(usdParsed.skel)
          /\ usdParsed.ok <=> GoodPrim(stage[usdParsed.path])
    /\ \A k \in DOMAIN skeletons : WellFormed(skeletons[k])
    /\ (usdPc = "done" /\ stageOpens) =>
          [k \in DOMAIN skeletons |-> skeletons[k].primPath] = GoodPaths

\* a skeleton with a transform array of the wrong length is skipped and the
\* skeleton after it is returned
C9_Witness ==
    /\ usdPc = "done" /\ Len(stage) = 2
    /\ stage[1].isSkel /\ stage[1].joints.has /\ stage[1].bind.has /\ stage[1].rest.has
    /\ Len(stage[1].bind.val) # Len(stage[1].joints.val)
    /\ Len(skeletons) = 1
    /\ skeletons[1].primPath = 2
    /\ Len(skeletons[1].jointNames) = 2

----------------------------------------------------------------------------
(* claim about the common root, checked under SpecRoot *)

\* p is an ancestor-or-self path of q, component for component
IsAncestorOrSelf(p, q) == Len(p) <= Len(q) /\ SubSeq(q, 1, Len(p)) = p

\* C10: for a non-empty set of influences the skeleton path left by the
\* pop-until-common loop is the longest path that is an ancestor-or-self
\* path, component for component, of every influence
C10_LongestSharedPrefix ==
    rootPc = "done" =>
        /\ \A i \in DOMAIN influencePaths : IsAncestorOrSelf(skelPath, influencePaths[i])
        /\ \A d \in (Len(skelPath) + 1)..Len(influencePaths[1]) :
              \E i \in DOMAIN influencePaths :
                 ~IsAncestorOrSelf(SubSeq(influencePaths[1], 1, d), influencePaths[i])

----------------------------------------------------------------------------
(* claim about the joint hierarchy extraction, checked under SpecJoints *)

\* the scene node of the joint at position k (1-based) of the skeleton
JointNode(k) == jointPaths[k][Len(jointPaths[k])]

\* C11: every joint of the skeleton produced by parseMayaSkel has parent
\* index -1, exactly when it is the traversal root, or else the position of
\* its parent joint in the produced sequence, which is strictly less than
\* the joint's own position: the parent indices form a forest without cycles
C11_ParentBeforeChild ==
    \A k \in DOMAIN mayaSkelData.jointParentIndices :
        LET parentIndex == mayaSkelData.jointParentIndices[k]
        IN /\ (parentIndex = -1) <=> (JointNode(k) = rootNode)
           /\ parentIndex # -1 =>
                 /\ 0 <= parentIndex /\ parentIndex < k - 1
                 /\ JointNode(parentIndex + 1) = scene.par[JointNode(k)]
                 /\ mayaSkelData.jointNames[parentIndex + 1] =
                       PartialPathName(scene, Pop(jointPaths[k]))

\* a chain of a root, its child and its grandchild, the grandchild bearing
\* the root's name
C11_Witness ==
    /\ mayaPc = "done"
    /\ mayaSkelData.jointParentIndices = <<-1, 0, 1>>
    /\ scene.name[JointNode(1)] = scene.name[JointNode(3)]

----------------------------------------------------------------------------
(* claim about the weight loop, checked under SpecWeights *)

\* the influences of vertex v (1-based) whose weight exceeds 1e-4, ascending
StoredInfluences(v) ==
    SelectSeq([i \in 1..Len(vertexWeights[v]) |-> i - 1],
              LAMBDA i : vertexWeights[v][i + 1] # NaN
                         /\ vertexWeights[v][i + 1] > WeightThreshold)

RECURSIVE ExpectedIndices(_), ExpectedWeights(_)
\* the influence indices of the pairs to store for the first v vertices
ExpectedIndices(v) ==
    IF v = 0 THEN <<>> ELSE ExpectedIndices(v - 1) \o StoredInfluences(v)

\* the weights of the pairs to store for the first v vertices
ExpectedWeights(v) ==
    IF v = 0 THEN <<>>
    ELSE ExpectedWeights(v - 1) \o
         [k \in 1..Len(StoredInfluences(v)) |->
             vertexWeights[v][StoredInfluences(v)[k] + 1]]

\* C12: in the weight loop every write to the joint-index and weight arrays
\* is inside the current array length, and on return the two arrays have
\* the same length, the number of (vertex, influence) pairs whose weight
\* exceeds 1e-4, and hold these pairs vertex-major, then by ascending
\* influence index
C12_WritesInsideAndPairsInOrder ==
    /\ ~wroteOutside
    /\ Len(jointIndices) = Len(jointWeights)
    /\ arrayIndex <= Len(jointIndices) \/ weightPc = "done"
    /\ weightPc = "done" =>
          /\ Len(jointIndices) = Len(ExpectedIndices(Len(vertexWeights)))
          /\ jointIndices = ExpectedIndices(Len(vertexWeights))
          /\ jointWeights = ExpectedWeights(Len(vertexWeights))

\* more than four weights per vertex were stored, so that the arrays grew
\* beyond their preallocated length
C12_Witness ==
    /\ weightPc = "done"
    /\ Len(vertexWeights) = 2
    /\ Len(jointIndices) > PreallocPerVertex * Len(vertexWeights)
    /\ ~wroteOutside

====
